---- MODULE Spec2Model ----
(***************************************************************************)
(* Model of the Stability AI proxy: the Next.js API routes                 *)
(* (pages/api/generate-image, inpaint-image, erase-objects, health) and    *)
(* the three express servers that carry copies of the same handlers.       *)
(*                                                                         *)
(* One request is followed from its arrival to its response.  A handler is *)
(* two steps: everything up to the await of the provider call, and         *)
(* everything after the provider has answered.                             *)
(*                                                                         *)
(* JavaScript values:                                                      *)
(*   - a text is a sequence of one-character strings (so trim is computed),*)
(*     except opaque payloads (base64 text, messages), which are strings;  *)
(*   - an object is a function from field names; an absent field is        *)
(*     `undefined`;                                                        *)
(*   - a bitmap is [ok, width, height, data], data being the RGBA bytes of *)
(*     two representative pixels, the top-left one and the bottom-right    *)
(*     one, in bitmap.data layout (4 bytes per pixel).                     *)
(***************************************************************************)
EXTENDS Integers, Sequences, FiniteSets, TLC

VARIABLES
    server,             \* the program that is running: see Variants
    env,                \* process.env.STABILITY_API_KEY
    STABILITY_API_KEY,  \* the module-level constant captured at load
    pc,                 \* "idle" | "awaiting" | "responded"
    req,                \* the inbound request being served
    outbound,           \* the provider calls made for it, in order
    reply,              \* what the provider answered
    resp,               \* the responses sent to the browser, in order
    debug_mask,         \* the file debug_mask.png of the v2beta express server
    canvasKind,         \* the painting canvas in the browser: see CanvasKinds
    originalImage,      \* the uploaded picture (originalImage, baseImage)
    canvas,             \* the pixels of the canvas the brush paints on
    undoStack,          \* the states saved for Undo, oldest first
    maskBlob,           \* the mask the last submission built from the canvas
    trail,              \* history: the canvas before each stroke not undone
    expected,           \* history: the canvas before the stroke just undone
    recent,             \* history: the states saved, newest ten, not undone
    currentMode,        \* 'generate' | 'inpaint' | 'erase' of the page
    isLoading,          \* the loading flag the three components share
    images,             \* the gallery, first entry first
    inflight            \* the submissions of the page that have not ended

canvasVars ==
    <<canvasKind, originalImage, canvas, undoStack, maskBlob, trail, expected, recent>>

pageVars == <<currentMode, isLoading, images, inflight>>

serverVars ==
    <<server, env, STABILITY_API_KEY, pc, req, outbound, reply, resp, debug_mask>>

vars == <<serverVars, canvasVars, pageVars>>

(***************************************************************************)
(* Bounds of the model and constants of the program                        *)
(***************************************************************************)
\* longest artifacts / images array the provider returns in the model
MaxArtifacts == 2

targetWidth == 1024
targetHeight == 1024

\* limits.fileSize of multer, in bytes: 10 * 1024 * 1024
fileSize == 10485760

(***************************************************************************)
(* JavaScript helpers                                                      *)
(***************************************************************************)
EmptyObj == [f \in {} |-> 0]

Has(obj, f) == f \in DOMAIN obj

IsSpace(c) == c \in {" ", "\t", "\n"}

RECURSIVE TrimStart(_)
TrimStart(s) ==
    IF s = <<>> THEN <<>>
    ELSE IF IsSpace(Head(s)) THEN TrimStart(Tail(s)) ELSE s

RECURSIVE TrimEnd(_)
TrimEnd(s) ==
    IF s = <<>> THEN <<>>
    ELSE IF IsSpace(s[Len(s)]) THEN TrimEnd(SubSeq(s, 1, Len(s) - 1)) ELSE s

\* String.prototype.trim
Trim(s) == TrimEnd(TrimStart(s))

\* truthiness of a text: only '' is falsy
TruthyText(s) == s # <<>>

\* obj.f || dflt, for a text field
FieldOr(obj, f, dflt) == IF Has(obj, f) /\ TruthyText(obj[f]) THEN obj[f] ELSE dflt

\* !obj.f?.trim()
BlankField(obj, f) == ~Has(obj, f) \/ ~TruthyText(Trim(obj[f]))

\* a JavaScript string where an object may also stand (details, bodies)
Str(s) == [str |-> s]

TruthyData(d) == d # Str("")

KeyConfigured(k) == k # ""

Bearer(k) == "Bearer " \o k

DataUrlPrefix == "data:image/png;base64,"

(***************************************************************************)
(* Bitmaps: Jimp (inpaint) and sharp (erase)                               *)
(***************************************************************************)
\* the representative pixels: 0 is the top-left one, 1 the bottom-right one
PixelIndex == {0, 1}

Coord(i, bm) == IF i = 0 THEN <<0, 0>> ELSE <<bm.width - 1, bm.height - 1>>

\* the four bytes bitmap.data[idx .. idx + 3] of pixel i
PixelAt(data, i) == SubSeq(data, 4 * i + 1, 4 * i + 4)

\* the bitmap with pixel i replaced by pixels[i], byte by byte
WithPixels(bm, pixels) ==
    [bm EXCEPT !.data =
        [k \in 1..Len(bm.data) |-> pixels[(k - 1) \div 4][((k - 1) % 4) + 1]]]

\* Jimp.read(buffer): a bitmap, or a throw when the bytes do not decode
JimpDecodes(buffer) == buffer.ok

\* image.resize(w, h): stretches to exactly w x h; the corners stay corners
JimpResize(bm, w, h) == [bm EXCEPT !.width = w, !.height = h]

\* Jimp's greyscale(): parseInt(.2126 * r + .7152 * g + .0722 * b), alpha kept
Luma(px) == (2126 * px[1] + 7152 * px[2] + 722 * px[3]) \div 10000

GreyPixel(px) == <<Luma(px), Luma(px), Luma(px), px[4]>>

JimpGreyscale(bm) ==
    WithPixels(bm, [i \in PixelIndex |-> GreyPixel(PixelAt(bm.data, i))])

\* the scan callback with the two outcomes of the comparison exchanged
MaskScanCallbackInverted(px) ==
    LET value == IF px[1] > 128 THEN 0 ELSE 255
    IN  <<value, value, value, 255>>

\* the scan callback with the line that sets alpha left out
MaskScanCallbackAlphaKept(px) ==
    LET value == IF px[1] > 128 THEN 255 ELSE 0
    IN  <<value, value, value, px[4]>>

\* the scan callback of the inpaint handlers
MaskScanCallback(px) ==
    LET value == IF px[1] > 128 THEN 255 ELSE 0
    IN  <<value, value, value, 255>>

\* the pixel lies in the rectangle of width w and height h at (x, y)
InRectangle(c, x, y, w, h) ==
    /\ c[1] >= x /\ c[1] < x + w
    /\ c[2] >= y /\ c[2] < y + h

\* image.scan(x, y, w, h, callback): the callback on every pixel of the
\* rectangle, the other pixels untouched
MaskScan(bm, x, y, w, h) ==
    WithPixels(bm,
        [i \in PixelIndex |->
            IF InRectangle(Coord(i, bm), x, y, w, h)
            THEN MaskScanCallback(PixelAt(bm.data, i))
            ELSE PixelAt(bm.data, i)])

\* resize, greyscale and scan of the uploaded mask
NormalizeMask(bm) ==
    MaskScan(JimpGreyscale(JimpResize(bm, targetWidth, targetHeight)),
             0, 0, targetWidth, targetHeight)

\* sharp's grayscale(): one intensity per pixel, alpha kept.  The luma
\* weights are exact on achromatic pixels; the chromatic pixels of the
\* palette fall on the same side of the threshold under libvips' conversion.
SharpGrayscale(bm) ==
    WithPixels(bm, [i \in PixelIndex |-> GreyPixel(PixelAt(bm.data, i))])

\* sharp's threshold(t): every band value >= t becomes 255, the others 0
SharpThresholdPixel(px, t) ==
    [k \in 1..4 |-> IF px[k] >= t THEN 255 ELSE 0]

SharpThreshold(bm, t) ==
    WithPixels(bm, [i \in PixelIndex |-> SharpThresholdPixel(PixelAt(bm.data, i), t)])

\* sharp(buffer).grayscale().threshold(128).png().toBuffer()
ProcessedMask(bm) == SharpThreshold(SharpGrayscale(bm), 128)

(***************************************************************************)
(* Buffer.toString('base64')                                               *)
(***************************************************************************)
B64Chars ==
    << "A","B","C","D","E","F","G","H","I","J","K","L","M","N","O","P",
       "Q","R","S","T","U","V","W","X","Y","Z","a","b","c","d","e","f",
       "g","h","i","j","k","l","m","n","o","p","q","r","s","t","u","v",
       "w","x","y","z","0","1","2","3","4","5","6","7","8","9","+","/" >>

B64(i) == B64Chars[i + 1]

RECURSIVE Base64(_)
Base64(bytes) ==
    IF Len(bytes) = 0 THEN ""
    ELSE IF Len(bytes) = 1 THEN
        B64(bytes[1] \div 4) \o B64((bytes[1] % 4) * 16) \o "=="
    ELSE IF Len(bytes) = 2 THEN
        B64(bytes[1] \div 4) \o B64((bytes[1] % 4) * 16 + bytes[2] \div 16)
            \o B64((bytes[2] % 16) * 4) \o "="
    ELSE
        B64(bytes[1] \div 4) \o B64((bytes[1] % 4) * 16 + bytes[2] \div 16)
            \o B64((bytes[2] % 16) * 4 + bytes[3] \div 64) \o B64(bytes[3] % 64)
            \o Base64(SubSeq(bytes, 4, Len(bytes)))

(***************************************************************************)
(* Inputs: requests of the browser                                         *)
(***************************************************************************)
BlackPx == <<0, 0, 0, 255>>
WhitePx == <<255, 255, 255, 255>>

\* opaque greys at and next to the threshold, and two coloured pixels that
\* are not opaque
Palette ==
    { BlackPx, WhitePx, <<128, 128, 128, 255>>, <<129, 129, 129, 255>>,
      <<255, 0, 0, 128>>, <<0, 255, 0, 0>> }

Bitmap(w, h, p, q) == [ok |-> TRUE, width |-> w, height |-> h, data |-> p \o q]

\* bytes that are no raster image
Undecodable == [ok |-> FALSE, width |-> 0, height |-> 0, data |-> <<>>]

ImageBuffers ==
    { Bitmap(640, 480, <<10, 20, 30, 255>>, WhitePx),
      Undecodable }

MaskBuffers ==
    { Bitmap(d[1], d[2], p, q) :
        d \in {<<256, 256>>, <<1024, 1024>>}, p \in Palette, q \in {BlackPx, WhitePx} }
    \cup {Undecodable}

\* a file part of size bytes
SizedFile(buffer, size) == [buffer |-> buffer, mimetype |-> "image/png", size |-> size]

\* a file part of a usual size
File(buffer) == SizedFile(buffer, 2048)

\* uploads at the size limit and above it: both files of exactly
\* limits.fileSize bytes, the image one byte larger, the mask one byte larger
LargeUploads ==
    { ("image" :> <<SizedFile(Bitmap(640, 480, <<10, 20, 30, 255>>, WhitePx), i)>>)
      @@ ("mask" :> <<SizedFile(Bitmap(1024, 1024, BlackPx, WhitePx), m)>>) :
        <<i, m>> \in { <<fileSize, fileSize>>, <<fileSize + 1, 2048>>, <<2048, fileSize + 1>> } }

\* req.files as multer's fields() leaves it: an array per field that came
UploadedFiles ==
    { i @@ m :
        i \in {EmptyObj} \cup {("image" :> <<File(b)>>) : b \in ImageBuffers},
        m \in {EmptyObj} \cup {("mask" :> <<File(b)>>) : b \in MaskBuffers} }
    \cup LargeUploads

PromptTexts == { <<>>, <<" ">>, <<"c", "a", "t">> }
NegativeTexts == { <<"f", "o", "g">> }

\* the numeric parameters of a generate request: none, all of them inside
\* the documented ranges, all of them 0, all of them outside the ranges
\* (below and above), one alone
NumericParams ==
    { EmptyObj,
      [steps |-> 50, cfgScale |-> 12, width |-> 512, height |-> 768, samples |-> 2],
      [steps |-> 0, cfgScale |-> 0, width |-> 0, height |-> 0, samples |-> 0],
      [steps |-> -5, cfgScale |-> 40, width |-> 4096, height |-> -1, samples |-> 11],
      [steps |-> 20] }

\* the JSON body of a generate request
JsonBodies ==
    { p @@ n @@ q :
        p \in {EmptyObj} \cup {("prompt" :> t) : t \in PromptTexts},
        n \in {EmptyObj} \cup {("negativePrompt" :> t) : t \in NegativeTexts \cup {<<" ">>}},
        q \in NumericParams }

\* optional text fields of a multipart inpaint request: all of them with a
\* value (the seed being '0'), all of them sent empty, a few of them
FormOptions ==
    { [negative_prompt |-> <<"f", "o", "g">>, seed |-> <<"0">>,
       style_preset |-> <<"a", "n", "i", "m", "e">>, cfg_scale |-> <<"7">>,
       steps |-> <<"3", "0">>, output_format |-> <<"w", "e", "b", "p">>,
       samples |-> <<"2">>],
      [negative_prompt |-> <<>>, seed |-> <<>>, style_preset |-> <<>>,
       cfg_scale |-> <<>>, steps |-> <<>>, output_format |-> <<>>],
      [seed |-> <<"4", "2">>, steps |-> <<"0">>] }

\* the text fields of a multipart inpaint request
FormBodies ==
    { p @@ n :
        p \in {EmptyObj} \cup {("prompt" :> t) : t \in PromptTexts},
        n \in {EmptyObj} \cup {("negative_prompt" :> t) : t \in NegativeTexts} }
    \cup { ("prompt" :> <<"c", "a", "t">>) @@ o : o \in FormOptions }

\* the programs of the repository, one of which is running: "next" is
\* pages/api/*, "server" the generate-only express server, "server_v2" the
\* express server of the v2beta inpaint endpoint, "server_v1" the express
\* server of the v1 masking endpoint.
Variants == {"next", "server", "server_v2", "server_v1"}
InpaintVariants == {"next", "server_v2", "server_v1"}

Request(variant, endpoint, method, multipart, body, files) ==
    [variant |-> variant, endpoint |-> endpoint, method |-> method,
     multipart |-> multipart, body |-> body, files |-> files]

\* express routes the method before the handler runs; a Next handler sees
\* every method
Methods(variant, usual) == IF variant = "next" THEN {"GET", "POST"} ELSE {usual}

GenerateRequests(v) ==
    { Request(v, "generate", m, FALSE, b, EmptyObj) :
        m \in Methods(v, "POST"), b \in JsonBodies }

\* a request that is not multipart passes multer untouched: no req.files
MultipartRequests(v, endpoint, bodies) ==
    { Request(v, endpoint, m, TRUE, b, f) :
        m \in Methods(v, "POST"), b \in bodies, f \in UploadedFiles }
    \cup { Request(v, endpoint, "POST", FALSE, EmptyObj, EmptyObj) }

\* the text fields of a multipart request to the v1 masking server, which
\* reads prompt and negativePrompt
MaskingFormBodies ==
    { p @@ n :
        p \in {EmptyObj} \cup {("prompt" :> t) : t \in PromptTexts},
        n \in {EmptyObj} \cup {("negativePrompt" :> t) : t \in NegativeTexts \cup {<<" ">>}} }

InpaintRequests(v) ==
    MultipartRequests(v, "inpaint",
                      IF v = "server_v1" THEN MaskingFormBodies ELSE FormBodies)

EraseRequests == MultipartRequests("next", "erase", {EmptyObj})

HealthRequests(v) ==
    { Request(v, "health", m, FALSE, EmptyObj, EmptyObj) : m \in Methods(v, "GET") }

NoRequest == Request("none", "none", "GET", FALSE, EmptyObj, EmptyObj)

(***************************************************************************)
(* Inputs: answers of the provider                                         *)
(***************************************************************************)
Payloads == <<"QQ==", "Qg==", "Qw==", "RA==">>

Artifact(k) == [base64 |-> Payloads[k], seed |-> 7 * k]

ImageItem(k) == [image |-> Payloads[k], seed |-> 7 * k]

\* the arrays the provider may send: of every length up to the bound, in
\* index order or reversed
ArtifactArrays ==
    UNION { { [i \in 1..n |-> Artifact(i)], [i \in 1..n |-> Artifact(n + 1 - i)] } :
            n \in 0..MaxArtifacts }

ImageArrays ==
    UNION { { [i \in 1..n |-> ImageItem(i)], [i \in 1..n |-> ImageItem(n + 1 - i)] } :
            n \in 0..MaxArtifacts }

\* JSON bodies of a 2xx answer
OkBodies ==
    { [artifacts |-> a] : a \in ArtifactArrays }
    \cup { [artifacts |-> <<Artifact(1)>>, usage |-> [credits |-> 3]] }
    \cup { [image |-> "QQ==", seed |-> 7], [image |-> "", seed |-> 7] }
    \cup { [images |-> a] : a \in ImageArrays }
    \cup { [image |-> "QQ==", seed |-> 7, images |-> a] :
             a \in { x \in ImageArrays : Len(x) = MaxArtifacts } }
    \cup { [finish_reason |-> "SUCCESS"] }

\* bodies of a non-2xx answer: a JSON object, or nothing at all
ErrorBodies == { [message |-> "invalid request"], Str("") }

ErrorStatuses == {400, 429}

NoReply == [kind |-> "none"]

\* what axios.post settles with: a 2xx response, a rejection that carries
\* the non-2xx response, or a rejection without response (network failure)
AxiosReplies ==
    { [kind |-> "http", status |-> 200, data |-> b] : b \in OkBodies }
    \cup { [kind |-> "http", status |-> st, data |-> b] :
             st \in ErrorStatuses, b \in ErrorBodies }
    \cup { [kind |-> "network", message |-> "connect ECONNREFUSED"] }

\* what fetch settles with for erase: the bytes of the answer, with the
\* text they decode to
FetchReplies ==
    { [kind |-> "http", status |-> 200, bytes |-> b, text |-> "PNG"] :
        b \in { <<65>>, <<137, 80>>, <<137, 80, 78>>, <<137, 80, 78, 71>> } }
    \cup { [kind |-> "http", status |-> st, bytes |-> <<>>, text |-> t] :
             st \in ErrorStatuses, t \in {"", "invalid request"} }
    \cup { [kind |-> "network", message |-> "fetch failed"] }

\* Date.now() at the moment the erase response is built
Timestamps == {1730000, 1730001}

(***************************************************************************)
(* What a handler does before it awaits the provider: it either answers    *)
(* (Respond) or sends one request to the provider (CallProvider)           *)
(***************************************************************************)
Respond(status, json) == [kind |-> "respond", status |-> status, json |-> json]

CallProvider(url, key, payload) ==
    [kind |-> "call",
     call |-> [url |-> url, authorization |-> Bearer(key), payload |-> payload]]

STABILITY_API_URL ==
    "https://api.stability.ai/v1/generation/stable-diffusion-xl-1024-v1-0/text-to-image"
STABILITY_INPAINT_URL == "https://api.stability.ai/v2beta/stable-image/edit/inpaint"
STABILITY_MASKING_URL ==
    "https://api.stability.ai/v1/generation/stable-diffusion-xl-1024-v1-0/image-to-image/masking"
STABILITY_ERASE_URL == "https://api.stability.ai/v2beta/stable-image/edit/remove-background"

MethodNotAllowed == Respond(405, [error |-> "Method not allowed"])

KeyNotConfigured(file) ==
    Respond(500, [error |-> "Stability AI API key not configured. Please set STABILITY_API_KEY in your "
                            \o file \o " file."])

FilesRequired == Respond(400, [error |-> "Both image and mask files are required"])

\* the catch block of the generate and inpaint handlers, on a throw that
\* carries no provider response: details is error.message
Caught(what, message) ==
    Respond(500, [error |-> "Failed to " \o what \o " image", details |-> Str(message)])

\* x || dflt for a number field
NumberOr(obj, f, dflt) == IF Has(obj, f) /\ obj[f] # 0 THEN obj[f] ELSE dflt

\* { text: t, weight: w }; a text that is undefined leaves no field in the
\* JSON that is sent
TextPrompt(obj, f, w) ==
    IF Has(obj, f) THEN [text |-> obj[f], weight |-> w] ELSE [weight |-> w]

\* the JSON body of the text-to-image call; withNegative is the handler's
\* test on negativePrompt
RequestBody(body, withNegative) ==
    [text_prompts |->
        <<TextPrompt(body, "prompt", 1)>>
        \o (IF withNegative THEN <<TextPrompt(body, "negativePrompt", -1)>>
            ELSE <<>>),
     cfg_scale |-> NumberOr(body, "cfgScale", 7),
     height |-> NumberOr(body, "height", 1024),
     width |-> NumberOr(body, "width", 1024),
     samples |-> NumberOr(body, "samples", 1),
     steps |-> NumberOr(body, "steps", 30)]

\* pages/api/generate-image
GenerateHandlerNext(r, key) ==
    IF r.method # "POST" THEN MethodNotAllowed
    ELSE IF ~KeyConfigured(key) THEN KeyNotConfigured(".env.local")
    ELSE IF BlankField(r.body, "prompt") THEN Respond(400, [error |-> "Prompt is required"])
    ELSE CallProvider(STABILITY_API_URL, key,
                      RequestBody(r.body, ~BlankField(r.body, "negativePrompt")))

\* app.post('/api/generate-image') of the express servers.  bodyParsed: the
\* server installs express.json(); without it req.body is undefined and the
\* destructuring throws inside the try
GenerateHandlerExpress(r, key, bodyParsed) ==
    IF ~bodyParsed
    THEN Caught("generate", "Cannot destructure property 'prompt' of 'req.body' as it is undefined.")
    ELSE IF ~KeyConfigured(key) THEN KeyNotConfigured(".env")
    ELSE CallProvider(STABILITY_API_URL, key,
                      RequestBody(r.body,
                                  Has(r.body, "negativePrompt")
                                  /\ TruthyText(r.body.negativePrompt)))

\* multer ends the upload with the error LIMIT_FILE_SIZE ('File too large')
\* when a file part has more than limits.fileSize bytes
FileTooLarge(r) ==
    \E name \in DOMAIN r.files : r.files[name][1].size > fileSize

\* an error that a route middleware of express passes to next() reaches the
\* default error handler, no other being installed: status 500 and an HTML
\* page
ExpressErrorPage(message) ==
    Respond(500, [html |-> "<pre>" \o message \o "</pre>"])

\* files[name]?.[0]
FirstFile(files, name) == files[name][1]

\* the same with the fields tested as numbers: '0' is left out
OptionalFieldsAsNumbers(body, names) ==
    [f \in {n \in names : Has(body, n) /\ TruthyText(body[n]) /\ body[n] # <<"0">>}
        |-> body[f]]

\* if (body.f) formData.append(f, body.f), for each optional text field
OptionalFields(body, names) ==
    [f \in {n \in names : Has(body, n) /\ TruthyText(body[n])} |-> body[f]]

\* the multipart form of the v2beta inpaint call
InpaintFormData(body, processedImage, processedMask) ==
    ("image" :> processedImage)
    @@ ("prompt" :> FieldOr(body, "prompt", <<>>))
    @@ ("mask" :> processedMask)
    @@ OptionalFields(body, {"negative_prompt", "seed", "style_preset", "cfg_scale", "steps"})
    @@ ("output_format" :> FieldOr(body, "output_format", <<"p", "n", "g">>))

\* the inpaint handler of pages/api/inpaint-image and of the v2beta express
\* server, up to axios.post.  checksMethod: only the Next handler sees a
\* method other than POST
InpaintHandler(r, key, checksMethod, envFile) ==
    IF checksMethod /\ r.method # "POST" THEN MethodNotAllowed
    ELSE IF FileTooLarge(r) THEN Caught("inpaint", "File too large")
    ELSE IF ~r.multipart
    THEN Caught("inpaint", "Cannot read properties of undefined (reading 'prompt')")
    ELSE IF ~KeyConfigured(key) THEN KeyNotConfigured(envFile)
    ELSE IF ~Has(r.files, "image") \/ ~Has(r.files, "mask") THEN FilesRequired
    ELSE IF ~JimpDecodes(FirstFile(r.files, "image").buffer)
         \/ ~JimpDecodes(FirstFile(r.files, "mask").buffer)
    THEN Caught("inpaint", "Could not find MIME for Buffer <null>")
    ELSE CallProvider(STABILITY_INPAINT_URL, key,
            InpaintFormData(r.body,
                JimpResize(FirstFile(r.files, "image").buffer, targetWidth, targetHeight),
                NormalizeMask(FirstFile(r.files, "mask").buffer)))

\* the multipart form of the v1 masking call
MaskingFormData(body, imageFile, maskFile) ==
    ("text_prompts[0][text]" :> body.prompt)
    @@ ("text_prompts[0][weight]" :> <<"1">>)
    @@ (IF Has(body, "negativePrompt") /\ TruthyText(body.negativePrompt)
        THEN ("text_prompts[1][text]" :> body.negativePrompt)
             @@ ("text_prompts[1][weight]" :> <<"-", "1">>)
        ELSE EmptyObj)
    @@ ("cfg_scale" :> FieldOr(body, "cfgScale", <<"7">>))
    @@ ("samples" :> FieldOr(body, "samples", <<"1">>))
    @@ ("steps" :> FieldOr(body, "steps", <<"3", "0">>))
    @@ ("init_image" :> imageFile.buffer)
    @@ ("mask_image" :> maskFile.buffer)

\* the inpaint handler of the v1 masking express server, up to axios.post.
\* form-data's append throws on a value that is undefined
InpaintHandlerV1(r, key) ==
    IF ~r.multipart
    THEN Caught("inpaint", "Cannot read properties of undefined (reading 'image')")
    ELSE IF ~KeyConfigured(key) THEN KeyNotConfigured(".env")
    ELSE IF ~Has(r.files, "image") \/ ~Has(r.files, "mask") THEN FilesRequired
    ELSE IF ~Has(r.body, "prompt")
    THEN Caught("inpaint", "Cannot read properties of undefined (reading 'name')")
    ELSE CallProvider(STABILITY_MASKING_URL, key,
            MaskingFormData(r.body, FirstFile(r.files, "image"), FirstFile(r.files, "mask")))

\* the catch block of pages/api/erase-objects
EraseCaught(message) == Respond(500, [error |-> message])

\* pages/api/erase-objects up to fetch; key is process.env.STABILITY_API_KEY
\* as read in the handler
EraseHandler(r, key) ==
    IF r.method # "POST" THEN MethodNotAllowed
    ELSE IF FileTooLarge(r) THEN EraseCaught("File too large")
    ELSE IF ~Has(r.files, "image") \/ ~Has(r.files, "mask") THEN FilesRequired
    ELSE IF ~FirstFile(r.files, "mask").buffer.ok
    THEN EraseCaught("Input buffer contains unsupported image format")
    ELSE IF ~KeyConfigured(key) THEN Respond(500, [error |-> "API key not configured"])
    ELSE CallProvider(STABILITY_ERASE_URL, key,
            ("image" :> FirstFile(r.files, "image").buffer)
            @@ ("mask" :> ProcessedMask(FirstFile(r.files, "mask").buffer)))

\* pages/api/health
HealthHandlerNext(r, key) ==
    IF r.method # "GET" THEN MethodNotAllowed
    ELSE Respond(200, [status |-> "OK", apiKeyConfigured |-> KeyConfigured(key)])

\* app.get('/api/health') of the express servers
HealthHandlerExpress(key) ==
    Respond(200, [status |-> "OK", apiKeyConfigured |-> KeyConfigured(key)])

(***************************************************************************)
(* What a handler does once the provider call has settled                  *)
(***************************************************************************)
IsOk(r) == r.kind = "http" /\ r.status >= 200 /\ r.status <= 299

\* error.response?.data || error.message, of a rejected axios call
ErrorDetails(r) ==
    IF r.kind = "http" /\ TruthyData(r.data) THEN r.data
    ELSE IF r.kind = "http"
    THEN Str("Request failed with status code " \o ToString(r.status))
    ELSE Str(r.message)

\* response.data.usage: a field that is undefined is left out of the JSON
Usage(data) == IF Has(data, "usage") THEN ("usage" :> data.usage) ELSE EmptyObj

\* the map with every seed read from the first artifact
ArtifactsToImagesFirstSeed(artifacts) ==
    [i \in 1..Len(artifacts) |->
        [base64 |-> DataUrlPrefix \o artifacts[i].base64, seed |-> artifacts[1].seed]]

\* response.data.artifacts.map(...)
ArtifactsToImages(artifacts) ==
    [i \in 1..Len(artifacts) |->
        [base64 |-> DataUrlPrefix \o artifacts[i].base64, seed |-> artifacts[i].seed]]

\* the same with a body that has no artifacts taken as an empty result
ArtifactsAfterLenient(r, what) ==
    IF ~IsOk(r)
    THEN Respond(500, [error |-> "Failed to " \o what \o " image", details |-> ErrorDetails(r)])
    ELSE Respond(200, ("success" :> TRUE)
                      @@ ("images" :> IF Has(r.data, "artifacts")
                                      THEN ArtifactsToImages(r.data.artifacts)
                                      ELSE <<>>)
                      @@ Usage(r.data))

\* the rest of a handler of the v1 API (generate everywhere, inpaint of the
\* masking server) after axios.post
ArtifactsAfter(r, what) ==
    IF ~IsOk(r)
    THEN Respond(500, [error |-> "Failed to " \o what \o " image", details |-> ErrorDetails(r)])
    ELSE IF ~Has(r.data, "artifacts")
    THEN Caught(what, "Cannot read properties of undefined (reading 'map')")
    ELSE Respond(200, ("success" :> TRUE)
                      @@ ("images" :> ArtifactsToImages(r.data.artifacts))
                      @@ Usage(r.data))

\* response.data.images.map(...) of the v2beta inpaint handlers
ImagesToImages(list) ==
    [i \in 1..Len(list) |->
        [base64 |-> DataUrlPrefix \o list[i].image, seed |-> list[i].seed]]

\* seed: response.data.seed, left out of the JSON when undefined
SingleImage(data) ==
    ("base64" :> (DataUrlPrefix \o data.image))
    @@ (IF Has(data, "seed") THEN ("seed" :> data.seed) ELSE EmptyObj)

\* the rest of the v2beta inpaint handlers after axios.post
InpaintAfter(r) ==
    IF ~IsOk(r)
    THEN Respond(500, [error |-> "Failed to inpaint image", details |-> ErrorDetails(r)])
    ELSE IF Has(r.data, "image") /\ r.data.image # ""
    THEN Respond(200, ("success" :> TRUE)
                      @@ ("images" :> <<SingleImage(r.data)>>)
                      @@ Usage(r.data))
    ELSE IF Has(r.data, "images")
    THEN Respond(200, ("success" :> TRUE)
                      @@ ("images" :> ImagesToImages(r.data.images))
                      @@ Usage(r.data))
    ELSE Respond(500, [error |-> "Unexpected response from Stability API",
                       details |-> r.data])

\* the same with the image sent as a data URL, as generate and inpaint do
EraseAfterDataUrl(r, now) ==
    IF r.kind = "network" THEN EraseCaught(r.message)
    ELSE IF ~IsOk(r)
    THEN Respond(r.status,
                 [error |-> "Stability AI API error: " \o ToString(r.status)
                            \o " - " \o r.text])
    ELSE Respond(200, [success |-> TRUE,
                       image |-> [base64 |-> DataUrlPrefix \o Base64(r.bytes), seed |-> now]])

\* the rest of pages/api/erase-objects after fetch; now is Date.now()
EraseAfter(r, now) ==
    IF r.kind = "network" THEN EraseCaught(r.message)
    ELSE IF ~IsOk(r)
    THEN Respond(r.status,
                 [error |-> "Stability AI API error: " \o ToString(r.status)
                            \o " - " \o r.text])
    ELSE Respond(200, [success |-> TRUE,
                       image |-> [base64 |-> Base64(r.bytes), seed |-> now]])

(***************************************************************************)
(* The state machine                                                       *)
(***************************************************************************)
NoFile == Undecodable

(***************************************************************************)
(* The page in the browser, before anything is done on it                  *)
(***************************************************************************)
\* the canvas of components/EraseCanvas (the overlay the brush paints on),
\* of components/InpaintCanvas and of the static page
CanvasKinds == {"erase", "inpaint", "static"}

TransparentPx == <<0, 0, 0, 0>>

\* the pixels of a canvas: data is the RGBA bytes of the representative
\* pixels; brush is a history mark, the pixels whose colour the brush laid
Pixels(p, q, brush) == [data |-> p \o q, brush |-> brush]

\* the inpaint canvases are filled black when they are set up; the erase
\* overlay is a fresh canvas, transparent
BlankCanvas(kind) ==
    IF kind = "erase" THEN Pixels(TransparentPx, TransparentPx, {})
    ELSE Pixels(BlackPx, BlackPx, {})

NoImage == Undecodable

NoCanvas == [data |-> <<>>, brush |-> {}]

CanvasAtRest(kind) ==
    /\ canvasKind = kind
    /\ originalImage = NoImage
    /\ canvas = BlankCanvas(kind)
    /\ undoStack = <<>>
    /\ maskBlob = NoCanvas
    /\ trail = <<>>
    /\ expected = NoCanvas
    /\ recent = <<>>

\* useState('generate'), useState([]), useState(false) of Home
PageAtRest ==
    /\ currentMode = "generate"
    /\ isLoading = FALSE
    /\ images = <<>>
    /\ inflight = <<>>

Init ==
    /\ CanvasAtRest("inpaint")
    /\ PageAtRest
    /\ server \in Variants
    /\ env \in {"", "sk-test"}
    /\ STABILITY_API_KEY = env
    /\ pc = "idle"
    /\ req = NoRequest
    /\ outbound = <<>>
    /\ reply = NoReply
    /\ resp = <<>>
    /\ debug_mask = NoFile

Sent(outcome) == [status |-> outcome.status, json |-> outcome.json]

\* a request arrives and its handler runs up to its answer or to the await
\* of the provider call
Start(r, outcome) ==
    /\ pc = "idle"
    /\ req' = r
    /\ reply' = NoReply
    /\ IF outcome.kind = "respond"
       THEN /\ resp' = <<Sent(outcome)>>
            /\ outbound' = <<>>
            /\ pc' = "responded"
       ELSE /\ resp' = <<>>
            /\ outbound' = <<outcome.call>>
            /\ pc' = "awaiting"
    /\ UNCHANGED <<server, env, STABILITY_API_KEY, canvasVars, pageVars>>

\* the provider call settles and the handler ends without an answer
SettleSilently(r, outcome) ==
    /\ pc = "awaiting"
    /\ reply' = r
    /\ resp' = resp
    /\ pc' = "responded"
    /\ UNCHANGED <<server, env, STABILITY_API_KEY, req, outbound, debug_mask>>
    /\ UNCHANGED <<canvasVars, pageVars>>

\* the provider call settles and the handler runs to its answer
Settle(r, outcome) ==
    /\ pc = "awaiting"
    /\ reply' = r
    /\ resp' = Append(resp, Sent(outcome))
    /\ pc' = "responded"
    /\ UNCHANGED <<server, env, STABILITY_API_KEY, req, outbound, debug_mask>>
    /\ UNCHANGED <<canvasVars, pageVars>>

GenerateHandler(v, r) ==
    IF v = "next" THEN GenerateHandlerNext(r, STABILITY_API_KEY)
    ELSE GenerateHandlerExpress(r, STABILITY_API_KEY, v # "server_v2")

Generate ==
    \E r \in GenerateRequests(server) :
        /\ Start(r, GenerateHandler(server, r))
        /\ UNCHANGED debug_mask

\* in the express servers upload.fields(...) is a middleware of the route:
\* its error goes to next() and the handler does not run
InpaintHandlerOf(v, r) ==
    IF v = "next" THEN InpaintHandler(r, STABILITY_API_KEY, TRUE, ".env.local")
    ELSE IF FileTooLarge(r) THEN ExpressErrorPage("MulterError: File too large")
    ELSE IF v = "server_v2" THEN InpaintHandler(r, STABILITY_API_KEY, FALSE, ".env")
    ELSE InpaintHandlerV1(r, STABILITY_API_KEY)

\* the v2beta express server writes the normalized mask to debug_mask.png
\* before it builds the form
Inpaint ==
    /\ server \in InpaintVariants
    /\ \E r \in InpaintRequests(server) :
        /\ Start(r, InpaintHandlerOf(server, r))
        /\ debug_mask' =
             IF server = "server_v2" /\ InpaintHandlerOf(server, r).kind = "call"
             THEN InpaintHandlerOf(server, r).call.payload.mask
             ELSE debug_mask

Erase ==
    /\ server = "next"
    /\ \E r \in EraseRequests :
        /\ Start(r, EraseHandler(r, env))
        /\ UNCHANGED debug_mask

Health ==
    \E r \in HealthRequests(server) :
        /\ Start(r, IF server = "next" THEN HealthHandlerNext(r, STABILITY_API_KEY)
                    ELSE HealthHandlerExpress(STABILITY_API_KEY))
        /\ UNCHANGED debug_mask

AxiosSettles ==
    /\ req.endpoint \in {"generate", "inpaint"}
    /\ \E r \in AxiosReplies :
        Settle(r, IF req.endpoint = "generate" THEN ArtifactsAfter(r, "generate")
                  ELSE IF req.variant = "server_v1" THEN ArtifactsAfter(r, "inpaint")
                  ELSE InpaintAfter(r))

FetchSettles ==
    /\ req.endpoint = "erase"
    /\ \E r \in FetchReplies : \E now \in Timestamps :
        Settle(r, EraseAfter(r, now))

\* the response is out; nothing of the request is kept
Finish ==
    /\ pc = "responded"
    /\ pc' = "idle"
    /\ req' = NoRequest
    /\ outbound' = <<>>
    /\ reply' = NoReply
    /\ resp' = <<>>
    /\ UNCHANGED <<server, env, STABILITY_API_KEY, debug_mask, canvasVars, pageVars>>

Next ==
    \/ Generate
    \/ Inpaint
    \/ Erase
    \/ Health
    \/ AxiosSettles
    \/ FetchSettles
    \/ Finish

Spec == Init /\ [][Next]_vars

(***************************************************************************)
(* Properties                                                              *)
(***************************************************************************)
Responded == pc = "responded"

\* a request with nothing wrong in it: a POST with a prompt that is not
\* blank (generate, inpaint) and two files that decode (inpaint, erase)
WellFormed ==
    /\ req.method = "POST"
    /\ req.endpoint \in {"generate", "inpaint"} => ~BlankField(req.body, "prompt")
    /\ req.endpoint \in {"inpaint", "erase"} =>
        /\ Has(req.files, "image") /\ FirstFile(req.files, "image").buffer.ok
        /\ Has(req.files, "mask") /\ FirstFile(req.files, "mask").buffer.ok

\* the response the browser got
Answer == resp[1]

ConfigurationErrors ==
    { KeyNotConfigured(".env.local").json, KeyNotConfigured(".env").json,
      [error |-> "API key not configured"] }

\* C1: with no credential configured, every generate, inpaint and erase
\* request, whatever it contains (missing files, an empty prompt, a mask
\* that does not decode), is answered with the configuration error (status
\* 500) without a provider call, and health answers 200 with
\* apiKeyConfigured = false.  Stated of the Next handlers and of the
\* requests a browser form sends (a POST, multipart where files go).
C1_MissingCredentialIsConfigurationError ==
    (~KeyConfigured(env) /\ server = "next") =>
        /\ outbound = <<>>
        /\ (Responded /\ req.endpoint \in {"generate", "inpaint", "erase"}
                      /\ req.method = "POST"
                      /\ (req.endpoint = "generate" \/ req.multipart))
            => (Answer.status = 500 /\ Answer.json \in ConfigurationErrors)
        /\ (Responded /\ req.endpoint = "health" /\ req.method = "GET")
            => (Answer.status = 200 /\ Answer.json.apiKeyConfigured = FALSE)

\* the request has everything but, possibly, a prompt: a credential is
\* configured and, for inpaint, both files came and decode
OnlyPromptInDoubt ==
    /\ req.method = "POST"
    /\ KeyConfigured(STABILITY_API_KEY)
    /\ req.endpoint = "inpaint" =>
        /\ Has(req.files, "image") /\ FirstFile(req.files, "image").buffer.ok
        /\ Has(req.files, "mask") /\ FirstFile(req.files, "mask").buffer.ok

\* C2: a generate or inpaint request whose prompt is absent, empty or only
\* whitespace is answered 400 and no provider call is attempted for it, in
\* every server variant.
C2_BlankPromptIsValidationError ==
    (req.endpoint \in {"generate", "inpaint"} /\ BlankField(req.body, "prompt")) =>
        /\ outbound = <<>>
        /\ (Responded /\ OnlyPromptInDoubt) => Answer.status = 400

\* C3: when the provider answers with a non-2xx status, the response to the
\* browser carries that status and the provider's body verbatim as the
\* error detail, for generate, inpaint and erase.
C3_UpstreamStatusAndBodyPropagated ==
    (Responded /\ WellFormed /\ reply.kind = "http" /\ ~IsOk(reply)) =>
        /\ Answer.status = reply.status
        /\ req.endpoint \in {"generate", "inpaint"} =>
            (Has(Answer.json, "details") /\ Answer.json.details = reply.data)
        /\ req.endpoint = "erase" =>
            Answer.json.error = "Stability AI API error: " \o ToString(reply.status)
                                \o " - " \o reply.text

\* the inputs the endpoint requires: a prompt that is not blank for generate
\* and inpaint, an image file and a mask file for inpaint and erase
RequiredInputsPresent(r) ==
    /\ r.endpoint \in {"generate", "inpaint"} => ~BlankField(r.body, "prompt")
    /\ r.endpoint \in {"inpaint", "erase"} =>
        (Has(r.files, "image") /\ Has(r.files, "mask"))

\* C4: for every inbound request, on every path, at most one call goes to
\* the provider, and it goes only after the method, credential and
\* required-input checks have passed.  Stated of the Next handlers.
C4_OneCallAfterAllChecks ==
    /\ Len(outbound) <= 1
    /\ (outbound # <<>> /\ server = "next") =>
        /\ req.method = "POST"
        /\ KeyConfigured(env)
        /\ RequiredInputsPresent(req)

\* the part of C4 about the number of calls, on its own
AtMostOneCall == Len(outbound) <= 1

BinaryOpaque(px) ==
    /\ px[1] = px[2] /\ px[2] = px[3]
    /\ px[1] \in {0, 255}
    /\ px[4] = 255

\* the inpaint handlers that normalize the mask (pages/api/inpaint-image and
\* its copy in the v2beta express server)
NormalizingInpaint == req.endpoint = "inpaint" /\ server \in {"next", "server_v2"}

ForwardedMask(c) ==
    IF Has(outbound[c].payload, "mask") THEN outbound[c].payload.mask
    ELSE outbound[c].payload.mask_image

ForwardedImage(c) ==
    IF Has(outbound[c].payload, "image") THEN outbound[c].payload.image
    ELSE outbound[c].payload.init_image

UploadedMask == FirstFile(req.files, "mask").buffer

\* C6: in every mask normalizer (the Jimp scan of inpaint and sharp's
\* threshold(128) of erase) a pixel of greyscale intensity v becomes white
\* if and only if v > 128; a pixel at exactly 128 becomes black.
C6_WhiteIffAboveThreshold ==
    (WellFormed /\ (NormalizingInpaint \/ req.endpoint = "erase")) =>
        \A c \in 1..Len(outbound) : \A i \in PixelIndex :
            PixelAt(ForwardedMask(c).data, i)[1]
                = IF Luma(PixelAt(UploadedMask.data, i)) > 128 THEN 255 ELSE 0

\* C7: for every inpaint or erase request that reaches the provider, the
\* forwarded source image and the forwarded mask are both exactly
\* 1024 x 1024, whatever the dimensions of the uploads.
C7_ForwardedAtTargetResolution ==
    (WellFormed /\ req.endpoint \in {"inpaint", "erase"}) =>
        \A c \in 1..Len(outbound) :
            /\ ForwardedImage(c).width = targetWidth
            /\ ForwardedImage(c).height = targetHeight
            /\ ForwardedMask(c).width = targetWidth
            /\ ForwardedMask(c).height = targetHeight

\* C8: generate maps a provider body {artifacts: [a1..an]} to
\* {success: true, images: [i1..in]} with ik.base64 =
\* 'data:image/png;base64,' + ak.base64 and ik.seed = ak.seed for every k:
\* same length, same order, seeds unchanged.
C8_GenerateMapsArtifacts ==
    (Responded /\ req.endpoint = "generate" /\ IsOk(reply)
               /\ Has(reply.data, "artifacts")) =>
        /\ Answer.status = 200
        /\ Has(Answer.json, "success") /\ Answer.json.success = TRUE
        /\ Len(Answer.json.images) = Len(reply.data.artifacts)
        /\ \A k \in 1..Len(reply.data.artifacts) :
            /\ Answer.json.images[k].base64
                 = "data:image/png;base64," \o reply.data.artifacts[k].base64
            /\ Answer.json.images[k].seed = reply.data.artifacts[k].seed

\* generate has answered a provider body of two artifacts whose seeds differ
C8_Witness ==
    /\ Responded /\ req.endpoint = "generate" /\ server = "next"
    /\ IsOk(reply) /\ Has(reply.data, "artifacts")
    /\ Len(reply.data.artifacts) = 2
    /\ reply.data.artifacts[1].seed > reply.data.artifacts[2].seed
    /\ Len(Answer.json.images) = 2

\* C9: inpaint maps a provider body {image, seed} to a one-element images
\* array and a body {images: [{image, seed}, ...]} to an images array of the
\* same length and order, each element data-URL-prefixed with its seed
\* unchanged; a body that carries a batch is never reduced to one result.
C9_InpaintMapsSingleAndBatch ==
    (Responded /\ WellFormed /\ NormalizingInpaint /\ IsOk(reply)) =>
        /\ (Has(reply.data, "image") /\ reply.data.image # ""
            /\ ~Has(reply.data, "images")) =>
            /\ Has(Answer.json, "success")
            /\ Answer.json.images
                 = <<[base64 |-> "data:image/png;base64," \o reply.data.image,
                      seed |-> reply.data.seed]>>
        /\ Has(reply.data, "images") =>
            /\ Has(Answer.json, "success")
            /\ Len(Answer.json.images) = Len(reply.data.images)
            /\ \A k \in 1..Len(reply.data.images) :
                /\ Answer.json.images[k].base64
                     = "data:image/png;base64," \o reply.data.images[k].image
                /\ Answer.json.images[k].seed = reply.data.images[k].seed

\* C10: whenever generate or inpaint answers success: true, the images array
\* has at least one element, for every provider body the endpoint accepts.
C10_SuccessHasAnImage ==
    (Responded /\ WellFormed /\ req.endpoint \in {"generate", "inpaint"}
               /\ Has(Answer.json, "success") /\ Answer.json.success = TRUE) =>
        Len(Answer.json.images) >= 1

\* the 2xx body of the provider has none of the shapes the endpoint reads:
\* no artifacts for the v1 API (generate, inpaint of the masking server),
\* neither image nor images for the v2beta inpaint
UnrecognizedBody ==
    /\ IsOk(reply)
    /\ IF req.endpoint = "generate" \/ req.variant = "server_v1"
       THEN ~Has(reply.data, "artifacts")
       ELSE ~Has(reply.data, "image") /\ ~Has(reply.data, "images")

\* C11: a 2xx provider body that matches none of the shapes the endpoint
\* recognizes (no artifacts array for generate; neither an image field nor
\* an images array for inpaint) never yields success: true; the endpoint
\* answers 500 with an error payload.
C11_UnrecognizedBodyIsServerError ==
    (Responded /\ req.endpoint \in {"generate", "inpaint"} /\ UnrecognizedBody) =>
        /\ Answer.status = 500
        /\ Has(Answer.json, "error")
        /\ ~Has(Answer.json, "success")

\* generate has answered a 2xx provider body that carries images but no
\* artifacts
C11_Witness ==
    /\ Responded /\ req.endpoint = "generate" /\ UnrecognizedBody
    /\ Has(reply.data, "images") /\ Len(reply.data.images) = 1
    /\ Len(resp) = 1

\* C12: with a configured credential, an inpaint or erase request that
\* lacks the image file, the mask file or both, a request without any
\* multipart content included, is answered 400, and no provider call is
\* made for it.
C12_MissingFileIsValidationError ==
    (KeyConfigured(STABILITY_API_KEY) /\ KeyConfigured(env)
     /\ req.endpoint \in {"inpaint", "erase"} /\ req.method = "POST"
     /\ (~Has(req.files, "image") \/ ~Has(req.files, "mask"))) =>
        /\ outbound = <<>>
        /\ Responded => Answer.status = 400

\* the mask that was uploaded decodes and has no pixel that is not black
MaskEntirelyBlack ==
    /\ Has(req.files, "mask")
    /\ UploadedMask.ok
    /\ \A i \in PixelIndex : PixelAt(UploadedMask.data, i) = BlackPx

\* C13: an inpaint or erase request whose uploaded mask is entirely black
\* (nothing painted) is rejected by the server and never forwarded to the
\* provider.  Stated of requests with nothing else wrong in them.
C13_BlackMaskNeverForwarded ==
    (req.endpoint \in {"inpaint", "erase"} /\ WellFormed /\ MaskEntirelyBlack
     /\ KeyConfigured(STABILITY_API_KEY) /\ KeyConfigured(env)) =>
        /\ outbound = <<>>
        /\ Responded => Answer.status = 400

(***************************************************************************)
(* The environment of the process changes while the server runs            *)
(***************************************************************************)
\* the values process.env.STABILITY_API_KEY may take: unset, the key the
\* process started with, a key set later
EnvValues == {"", "sk-test", "sk-rotated"}

\* process.env.STABILITY_API_KEY is set, changed or unset from outside the
\* handlers; the constants captured at module load stay as they are
EnvChanges ==
    /\ \E k \in EnvValues \ {env} : env' = k
    /\ UNCHANGED <<server, STABILITY_API_KEY, pc, req, outbound, reply, resp, debug_mask>>
    /\ UNCHANGED <<canvasVars, pageVars>>

NextEnv == Next \/ EnvChanges

\* the Next application is the program that reads the environment after
\* its modules are loaded (pages/api/erase-objects); the express servers
\* read it once, at the top of the file
InitEnv == Init /\ server = "next"

SpecEnv == InitEnv /\ [][NextEnv]_vars

\* C14: the credential is captured once at process start and never read
\* again: every endpoint decides 'configured or not' and builds its bearer
\* token from the captured value, whatever the environment has become, and
\* health's apiKeyConfigured agrees with the credential check of the others.
C14_CredentialCapturedOnce ==
    /\ \A c \in 1..Len(outbound) :
        /\ KeyConfigured(STABILITY_API_KEY)
        /\ outbound[c].authorization = "Bearer " \o STABILITY_API_KEY
    /\ (Responded /\ Answer.json \in ConfigurationErrors) =>
        ~KeyConfigured(STABILITY_API_KEY)
    /\ (Responded /\ req.endpoint = "health" /\ Answer.status = 200) =>
        Answer.json.apiKeyConfigured = KeyConfigured(STABILITY_API_KEY)

\* C15: requests share no mutable state: handling a request writes nothing
\* that another request can read or that outlives the request, in every
\* server variant.  Between two requests nothing that a request wrote is
\* left: the state of the server is the one it started with.
C15_NothingOutlivesTheRequest ==
    pc = "idle" =>
        /\ req = NoRequest /\ outbound = <<>> /\ reply = NoReply /\ resp = <<>>
        /\ debug_mask = NoFile

\* the request goes out in the legacy encoding: generate everywhere, and
\* inpaint of the v1 masking server
LegacyEncoding == req.endpoint = "generate" \/ (req.endpoint = "inpaint" /\ server = "server_v1")

\* the weight a form field carries, as a number
FormWeight(t) == IF t = <<"1">> THEN 1 ELSE IF t = <<"-", "1">> THEN -1 ELSE 0

\* entry k (from 0) of text_prompts as the form fields of a masking call
\* spell it
FormTextPrompt(payload, k) ==
    [text |-> payload["text_prompts[" \o ToString(k) \o "][text]"],
     weight |-> FormWeight(payload["text_prompts[" \o ToString(k) \o "][weight]"])]

\* how many entries of text_prompts the form fields of a masking call hold
FormTextPromptCount(payload) ==
    Cardinality({ k \in 0..3 : ("text_prompts[" \o ToString(k) \o "][text]") \in DOMAIN payload })

\* text_prompts of a call in the legacy encoding, as a sequence
TextPromptsSent(payload) ==
    IF Has(payload, "text_prompts") THEN payload.text_prompts
    ELSE [k \in 1..FormTextPromptCount(payload) |-> FormTextPrompt(payload, k - 1)]

\* a negative prompt that is not the empty string came with the request
NegativePromptSupplied ==
    Has(req.body, "negativePrompt") /\ req.body.negativePrompt # <<>>

\* C16: in the legacy encoding (generate, and inpaint of the v1 masking
\* server) text_prompts always has the positive prompt with weight +1 at
\* index 0, and has a second entry, the negative prompt with weight -1 at
\* index 1, exactly when a negative prompt that is not empty was supplied;
\* it never has more than two entries.
C16_TextPromptsPositiveThenNegative ==
    (LegacyEncoding /\ WellFormed) =>
        \A c \in 1..Len(outbound) :
            LET tp == TextPromptsSent(outbound[c].payload)
            IN  /\ Len(tp) >= 1 /\ Len(tp) <= 2
                /\ tp[1] = [text |-> req.body.prompt, weight |-> 1]
                /\ Len(tp) = 2 <=> NegativePromptSupplied
                /\ Len(tp) = 2 => tp[2] = [text |-> req.body.negativePrompt, weight |-> -1]

\* the same with 'not empty' read as 'not blank' (what is left after trim)
TextPromptsWithBlankAsAbsent ==
    (LegacyEncoding /\ WellFormed) =>
        \A c \in 1..Len(outbound) :
            Len(TextPromptsSent(outbound[c].payload)) = 2
                <=> ~BlankField(req.body, "negativePrompt")

\* the numeric parameters of generate: the name in the request of the
\* browser, the name in the request to the provider, the default
GenerateNumbers ==
    { <<"steps", "steps", 30>>, <<"cfgScale", "cfg_scale", 7>>,
      <<"width", "width", 1024>>, <<"height", "height", 1024>>,
      <<"samples", "samples", 1>> }

\* C17: for each numeric parameter of generate (steps, cfgScale, width,
\* height, samples) the value sent to the provider is the value the client
\* supplied, for every number supplied, 0, negative numbers and numbers
\* outside the documented range included; the default (30, 7, 1024, 1024,
\* 1) is used only when the parameter is absent.
C17_NumbersPassedThrough ==
    (req.endpoint = "generate" /\ WellFormed) =>
        \A c \in 1..Len(outbound) : \A n \in GenerateNumbers :
            outbound[c].payload[n[2]]
                = IF Has(req.body, n[1]) THEN req.body[n[1]] ELSE n[3]

\* the optional fields of the v2beta inpaint call
InpaintOptionalNames == {"negative_prompt", "seed", "style_preset", "cfg_scale", "steps"}

\* the client sent field f with a value that is not the empty string
Supplied(f) == Has(req.body, f) /\ req.body[f] # <<>>

\* C18: the provider request of the v2beta inpaint endpoint always has
\* image, mask, prompt and output_format (the client's value, else 'png');
\* each of negative_prompt, seed, style_preset, cfg_scale and steps is in it
\* if and only if the client supplied a value that is not empty, and then
\* with that value unchanged.
C18_InpaintFormFields ==
    NormalizingInpaint =>
        \A c \in 1..Len(outbound) :
            LET form == outbound[c].payload
            IN  /\ {"image", "mask", "prompt", "output_format"} \subseteq DOMAIN form
                /\ DOMAIN form \subseteq
                     {"image", "mask", "prompt", "output_format"} \cup InpaintOptionalNames
                /\ form.output_format = IF Supplied("output_format")
                                        THEN req.body.output_format
                                        ELSE <<"p", "n", "g">>
                /\ Has(req.body, "prompt") => form.prompt = req.body.prompt
                /\ \A f \in InpaintOptionalNames :
                    /\ Has(form, f) <=> Supplied(f)
                    /\ Has(form, f) => form[f] = req.body[f]

\* an inpaint call has gone out for a request with every optional field
\* set, the seed being '0'
C18_Witness ==
    /\ NormalizingInpaint /\ pc = "awaiting" /\ Len(outbound) = 1
    /\ \A f \in InpaintOptionalNames : Supplied(f)
    /\ req.body.seed = <<"0">>
    /\ Has(outbound[1].payload, "seed")
    /\ outbound[1].payload.output_format = <<"w", "e", "b", "p">>

\* the base64 text of the byte sequences the provider answers with in the
\* model, as RFC 4648 gives it
KnownBase64(bytes) ==
    CASE bytes = <<65>> -> "QQ=="
      [] bytes = <<137, 80>> -> "iVA="
      [] bytes = <<137, 80, 78>> -> "iVBO"
      [] bytes = <<137, 80, 78, 71>> -> "iVBORw=="

\* C19: on a 2xx provider response erase answers 200 with
\* {success: true, image: {base64, seed}}, base64 being the plain base64
\* text of exactly the bytes of the provider's response (no data-URL
\* prefix) and seed the timestamp taken when the response is built; on a
\* non-2xx provider response it never answers success.
C19_EraseAnswer ==
    (Responded /\ req.endpoint = "erase" /\ reply.kind = "http") =>
        IF IsOk(reply)
        THEN /\ Answer.status = 200
             /\ DOMAIN Answer.json = {"success", "image"}
             /\ Answer.json.success = TRUE
             /\ DOMAIN Answer.json.image = {"base64", "seed"}
             /\ Answer.json.image.base64 = KnownBase64(reply.bytes)
             /\ Answer.json.image.seed \in Timestamps
        ELSE /\ ~Has(Answer.json, "success")
             /\ Answer.status # 200

\* erase has answered a provider response of four bytes, which take two
\* characters of padding
C19_Witness ==
    /\ Responded /\ req.endpoint = "erase" /\ IsOk(reply)
    /\ reply.bytes = <<137, 80, 78, 71>>
    /\ Answer.json.image.base64 = "iVBORw=="

\* C20: a request in which the uploaded image or mask exceeds 10MB fails
\* with a JSON error and a status that is not 2xx, before any image is
\* decoded, any mask normalized or any provider call made, for inpaint and
\* for erase.
C20_OversizedUploadFailsFirst ==
    (req.endpoint \in {"inpaint", "erase"} /\ req.method = "POST" /\ FileTooLarge(req)) =>
        /\ outbound = <<>>
        /\ Responded =>
            /\ Answer.status < 200 \/ Answer.status > 299
            /\ Has(Answer.json, "error")

\* the part of C20 that is not about the format of the error
OversizedUploadNeverProcessed ==
    (req.endpoint \in {"inpaint", "erase"} /\ req.method = "POST" /\ FileTooLarge(req)) =>
        /\ outbound = <<>>
        /\ Responded => (Answer.status < 200 \/ Answer.status > 299)

\* C21: mask normalization is idempotent: normalizing a mask that is
\* already binary, opaque and of the target size leaves every pixel
\* unchanged, so normalize(normalize(m)) = normalize(m) for every decodable
\* mask m.  The mask a normalizing inpaint handler forwards is normalize(m).
C21_NormalizeIdempotent ==
    NormalizingInpaint =>
        \A c \in 1..Len(outbound) :
            /\ outbound[c].payload.mask = NormalizeMask(UploadedMask)
            /\ NormalizeMask(outbound[c].payload.mask) = outbound[c].payload.mask

\* a mask of 256 x 256 with a grey pixel above the threshold and a pixel
\* that is not opaque has been normalized and forwarded
C21_Witness ==
    /\ NormalizingInpaint /\ pc = "awaiting" /\ Len(outbound) = 1
    /\ UploadedMask.width = 256
    /\ PixelAt(UploadedMask.data, 0) = <<129, 129, 129, 255>>
    /\ outbound[1].payload.mask.width = 1024
    /\ PixelAt(outbound[1].payload.mask.data, 0) = WhitePx

\* the settings of the inpaint form under their documented field names,
\* each with a value no request of the model carries
InpaintSettings ==
    { <<"negative_prompt", <<"m", "u", "d">>>>, <<"steps", <<"4", "5">>>>,
      <<"cfg_scale", <<"9">>>>, <<"samples", <<"4">>>> }

\* the request being served with one text field set to another value
WithField(f, v) == [req EXCEPT !.body = (f :> v) @@ req.body]

\* C22: every inpaint setting the user can adjust (negative prompt, steps,
\* CFG scale, number of results) influences the provider request: a
\* submission that differs from the one served in exactly one of these
\* settings, sent under its documented field name, produces a different
\* provider request, in every inpaint server variant.
C22_EverySettingReachesTheProvider ==
    (req.endpoint = "inpaint" /\ WellFormed /\ Len(outbound) = 1) =>
        \A s \in InpaintSettings :
            /\ InpaintHandlerOf(server, WithField(s[1], s[2])).kind = "call"
            /\ InpaintHandlerOf(server, WithField(s[1], s[2])).call.payload
                 # outbound[1].payload

MaxUndo == 10

\* the pictures a user loads: a dark one, and one with a light grey pixel
\* at the limit of the mask test and a white one
CanvasImages ==
    { Bitmap(512, 512, <<10, 20, 30, 255>>, <<90, 90, 90, 255>>),
      Bitmap(512, 384, <<200, 200, 200, 255>>, WhitePx) }

\* the representative pixels the brush is taken over
BrushPixels == {0}

\* ctx.drawImage(img, 0, 0, canvas.width, canvas.height) on a cleared canvas
DrawImage(img) == Pixels(PixelAt(img.data, 0), PixelAt(img.data, 1), {})

\* ctx.strokeStyle = '#ffffff' of the inpaint canvases, and
\* ctx.fillStyle = 'rgba(255, 0, 0, 0.5)' of the erase overlay (further
\* passes over a pixel only raise its alpha)
BrushColour(kind) == IF kind = "erase" THEN <<255, 0, 0, 128>> ELSE WhitePx

\* the brush passes over pixel p
Paint(cv, p, kind) ==
    [data |-> [k \in 1..Len(cv.data) |->
                  IF (k - 1) \div 4 = p THEN BrushColour(kind)[((k - 1) % 4) + 1]
                  ELSE cv.data[k]],
     brush |-> cv.brush \cup {p}]

\* array.slice(-n)
LastN(s, n) == IF Len(s) <= n THEN s ELSE SubSeq(s, Len(s) - n + 1, Len(s))

\* array.slice(0, -1), array.pop()
Front(s) == SubSeq(s, 1, Len(s) - 1)

\* saveState of EraseCanvas: [...prev.slice(-9), imageData]
SaveState(stack, state) == Append(LastN(stack, 9), state)

\* stopDrawing of the inpaint canvases:
\* if (undoStack.length > 10) undoStack.shift(); undoStack.push(canvas.toDataURL())
PushDataUrl(stack, state) ==
    Append(IF Len(stack) > 10 THEN Tail(stack) ELSE stack, state)

\* the bookkeeping of a stroke: the canvas before it joins the trail, and
\* the state the code saved joins the states saved
Remember(before, saved) ==
    /\ trail' = LastN(Append(trail, before), MaxUndo)
    /\ recent' = LastN(Append(recent, saved), MaxUndo)
    /\ expected' = NoCanvas

\* a picture is loaded: the canvas shows it (the erase overlay is cleared)
\* and the undo stack is reset
Upload ==
    \E img \in CanvasImages :
        /\ originalImage' = img
        /\ canvas' = IF canvasKind = "erase" THEN BlankCanvas("erase") ELSE DrawImage(img)
        /\ undoStack' = <<>>
        /\ trail' = <<>>
        /\ recent' = <<>>
        /\ expected' = NoCanvas
        /\ maskBlob' = NoCanvas
        /\ UNCHANGED <<canvasKind, serverVars, pageVars>>

\* startDrawing, draw, stopDrawing.  EraseCanvas saves the overlay in
\* startDrawing, before it paints; the inpaint canvases need a picture and
\* save the canvas in stopDrawing, after the stroke
Stroke ==
    \E p \in BrushPixels :
        /\ canvasKind # "erase" => originalImage.ok
        /\ canvas' = Paint(canvas, p, canvasKind)
        /\ undoStack' = IF canvasKind = "erase" THEN SaveState(undoStack, canvas)
                        ELSE PushDataUrl(undoStack, canvas')
        /\ Remember(canvas, IF canvasKind = "erase" THEN canvas ELSE canvas')
        /\ maskBlob' = NoCanvas
        /\ UNCHANGED <<canvasKind, originalImage, serverVars, pageVars>>

\* the pointer leaves the canvas (it does on its way to a button), or a
\* button is released over it, with no stroke under way: stopDrawing of the
\* inpaint canvases runs all the same; the one of EraseCanvas only lowers
\* isDrawing
PointerLeaves ==
    /\ canvasKind # "erase"
    /\ undoStack' = PushDataUrl(undoStack, canvas)
    /\ recent' = LastN(Append(recent, canvas), MaxUndo)
    /\ expected' = NoCanvas
    /\ maskBlob' = NoCanvas
    /\ UNCHANGED <<canvasKind, originalImage, canvas, trail, serverVars, pageVars>>

\* Undo: the last saved state is taken off the stack and drawn
Undo ==
    /\ undoStack # <<>>
    /\ canvas' = undoStack[Len(undoStack)]
    /\ undoStack' = Front(undoStack)
    /\ expected' = IF trail # <<>> THEN trail[Len(trail)] ELSE NoCanvas
    /\ trail' = IF trail # <<>> THEN Front(trail) ELSE trail
    /\ recent' = IF recent # <<>> THEN Front(recent) ELSE recent
    /\ maskBlob' = NoCanvas
    /\ UNCHANGED <<canvasKind, originalImage, serverVars, pageVars>>

\* clearCanvas of EraseCanvas saves the overlay and clears it; clearMask of
\* InpaintCanvas does nothing without a picture, else redraws it and
\* resets the stack; the static page fills the canvas black without one
ClearMask ==
    /\ canvasKind = "inpaint" => originalImage.ok
    /\ canvas' = IF canvasKind = "erase" \/ ~originalImage.ok
                 THEN BlankCanvas(canvasKind)
                 ELSE DrawImage(originalImage)
    /\ undoStack' = IF canvasKind = "erase" THEN SaveState(undoStack, canvas) ELSE <<>>
    /\ recent' = IF canvasKind = "erase"
                 THEN LastN(Append(recent, canvas), MaxUndo) ELSE <<>>
    /\ trail' = <<>>
    /\ expected' = NoCanvas
    /\ maskBlob' = NoCanvas
    /\ UNCHANGED <<canvasKind, originalImage, serverVars, pageVars>>

\* the mask pixel the inpaint canvases derive from a canvas pixel:
\* r > 200 && g > 200 && b > 200 gives white, anything else black
InpaintMaskPixel(px) ==
    IF px[1] > 200 /\ px[2] > 200 /\ px[3] > 200 THEN WhitePx ELSE BlackPx

\* the mask pixel EraseCanvas derives from an overlay pixel: alpha > 0
EraseMaskPixel(px) == IF px[4] > 0 THEN WhitePx ELSE BlackPx

MaskPixel(kind, px) ==
    IF kind = "erase" THEN EraseMaskPixel(px) ELSE InpaintMaskPixel(px)

\* the mask canvas a submission builds from the painting canvas
CreateMask(kind, cv) ==
    Pixels(MaskPixel(kind, PixelAt(cv.data, 0)), MaskPixel(kind, PixelAt(cv.data, 1)), {})

\* hasDrawing of handleErase: some overlay pixel has alpha > 0
HasDrawing(cv) == \E p \in PixelIndex : PixelAt(cv.data, p)[4] > 0

\* the part of handleSubmit / handleErase up to the mask blob: it needs a
\* picture, and EraseCanvas something painted
SubmitMask ==
    /\ originalImage.ok
    /\ canvasKind = "erase" => HasDrawing(canvas)
    /\ maskBlob' = CreateMask(canvasKind, canvas)
    /\ expected' = NoCanvas
    /\ UNCHANGED <<canvasKind, originalImage, canvas, undoStack, trail, recent, serverVars, pageVars>>

NextCanvas ==
    \/ Upload
    \/ Stroke
    \/ PointerLeaves
    \/ Undo
    \/ ClearMask
    \/ SubmitMask

\* one of the three canvases, freshly set up; no request is under way
InitCanvas ==
    /\ \E kind \in CanvasKinds : CanvasAtRest(kind)
    /\ PageAtRest
    /\ server = "next" /\ env = "sk-test" /\ STABILITY_API_KEY = env
    /\ pc = "idle" /\ req = NoRequest /\ outbound = <<>> /\ reply = NoReply
    /\ resp = <<>> /\ debug_mask = NoFile

SpecCanvas == InitCanvas /\ [][NextCanvas]_vars

(***************************************************************************)
(* Properties of the painting canvases                                     *)
(***************************************************************************)
\* C23: in the inpaint canvas (the component and the static page) Undo
\* steps back through the strokes: after an Undo that answers a completed
\* stroke the canvas shows the state it had before that stroke, so n
\* strokes followed by n undos (n <= 10) show the state before the first
C23_UndoStepsBack ==
    (canvasKind # "erase" /\ expected # NoCanvas) => canvas = expected

\* C24: the mask the inpaint canvas submits is white exactly at the pixels
\* the user painted and black everywhere else; with nothing painted it is
\* all black, whatever the colours of the picture
C24_MaskWhiteWherePainted ==
    (canvasKind # "erase" /\ maskBlob # NoCanvas) =>
        \A p \in PixelIndex :
            PixelAt(maskBlob.data, p) =
                IF p \in canvas.brush THEN WhitePx ELSE BlackPx

\* C30: the undo stack of every painting canvas (erase, inpaint, static
\* page) holds at most 10 states, and they are the most recently saved
\* ones that were not undone
C30_UndoStackBounded ==
    /\ Len(undoStack) <= MaxUndo
    /\ undoStack = recent

(***************************************************************************)
(* The Next.js page: Home with ImageGenerator, InpaintCanvas, EraseCanvas  *)
(* and ImageGallery.  A submission that got past its checks is an entry    *)
(* of inflight; the server answers it with what its handler sends.         *)
(***************************************************************************)
\* the gallery is followed up to this many entries
MaxGallery == 3

Modes == {"generate", "inpaint", "erase"}

\* the stages of a submission: waiting for canvas.toBlob, waiting for the
\* answer to axios.post, waiting for a promise that nothing resolves
Submission(endpoint, stage) == [endpoint |-> endpoint, stage |-> stage]

\* a request of the page that got no answer (the server is not reachable)
NoAnswer == [status |-> 0, json |-> EmptyObj]

\* what the server answers to a request of the page: what its handler
\* sends after the provider call, or an answer it gives without one
ServerAnswers(endpoint) ==
    {NoAnswer, Sent(MethodNotAllowed)} \cup
    IF endpoint = "generate"
    THEN { Sent(ArtifactsAfter(r, "generate")) : r \in AxiosReplies }
    ELSE IF endpoint = "inpaint"
    THEN { Sent(InpaintAfter(r)) : r \in AxiosReplies }
    ELSE { Sent(EraseAfter(r, now)) : r \in FetchReplies, now \in Timestamps }

\* axios resolves on a 2xx answer and rejects otherwise; the handlers then
\* look at result.success
Succeeded(answer) ==
    /\ answer.status >= 200 /\ answer.status <= 299
    /\ Has(answer.json, "success") /\ answer.json.success = TRUE

\* the argument of onImagesGenerated: result.images, or [result.image] in
\* handleErase
Batch(endpoint, answer) ==
    IF endpoint = "erase" THEN <<answer.json.image>> ELSE answer.json.images

\* handleImagesGenerated with the new images put after the old ones
HandleImagesGeneratedAppending(newImages) ==
    /\ images' = images \o newImages
    /\ currentMode' = "generate"

\* handleImagesGenerated: setImages(prev => [...newImages, ...prev]) and
\* setCurrentMode('generate')
HandleImagesGenerated(newImages) ==
    /\ images' = newImages \o images
    /\ currentMode' = "generate"

\* inflight without its entry i
Without(s, i) == SubSeq(s, 1, i - 1) \o SubSeq(s, i + 1, Len(s))

\* one of the three mode buttons: nothing guards it
SwitchMode ==
    /\ \E m \in Modes \ {currentMode} : currentMode' = m
    /\ UNCHANGED <<isLoading, images, inflight, serverVars, canvasVars>>

\* a submit button that the loading flag does not disable
SubmitGenerateWhileLoading ==
    /\ currentMode = "generate"
    /\ Len(inflight) < 3
    /\ isLoading' = TRUE
    /\ inflight' = Append(inflight, Submission("generate", "posted"))
    /\ UNCHANGED <<currentMode, images, serverVars, canvasVars>>

\* the submit button of ImageGenerator, with a prompt that is not blank
\* (a blank one returns before anything is set): the flag is raised and
\* the request posted
SubmitGenerate ==
    /\ currentMode = "generate"
    /\ ~isLoading
    /\ isLoading' = TRUE
    /\ inflight' = Append(inflight, Submission("generate", "posted"))
    /\ UNCHANGED <<currentMode, images, serverVars, canvasVars>>

\* the submit buttons of InpaintCanvas and EraseCanvas, with a picture
\* loaded and the checks passed: the flag is raised, the mask built and
\* the first canvas.toBlob awaited
SubmitCanvas ==
    /\ currentMode \in {"inpaint", "erase"}
    /\ ~isLoading
    /\ isLoading' = TRUE
    /\ inflight' = Append(inflight, Submission(currentMode, "toBlob"))
    /\ UNCHANGED <<currentMode, images, serverVars, canvasVars>>

\* toBlob calls back with the blobs: the form is built and posted
BlobsReady ==
    \E i \in 1..Len(inflight) :
        /\ inflight[i].stage = "toBlob"
        /\ inflight' = [inflight EXCEPT ![i].stage = "posted"]
        /\ UNCHANGED <<currentMode, isLoading, images, serverVars, canvasVars>>

\* toBlob calls back with null.  InpaintCanvas resolves with it, and
\* formData.append(name, null, filename) throws: catch, finally.
\* EraseCanvas resolves only 'if (blob)': the promise stays pending and
\* the handler never goes on
BlobMissing ==
    \E i \in 1..Len(inflight) :
        /\ inflight[i].stage = "toBlob"
        /\ IF inflight[i].endpoint = "inpaint"
           THEN /\ inflight' = Without(inflight, i)
                /\ isLoading' = FALSE
           ELSE /\ inflight' = [inflight EXCEPT ![i].stage = "pending"]
                /\ isLoading' = isLoading
        /\ UNCHANGED <<currentMode, images, serverVars, canvasVars>>

\* the answer to axios.post arrives and the handler runs to its end: on
\* success the images go to the gallery; finally lowers the flag
Answered ==
    \E i \in 1..Len(inflight) :
        /\ inflight[i].stage = "posted"
        /\ \E answer \in ServerAnswers(inflight[i].endpoint) :
            IF Succeeded(answer)
            THEN /\ Len(images) + Len(Batch(inflight[i].endpoint, answer)) <= MaxGallery
                 /\ HandleImagesGenerated(Batch(inflight[i].endpoint, answer))
            ELSE UNCHANGED <<currentMode, images>>
        /\ inflight' = Without(inflight, i)
        /\ isLoading' = FALSE
        /\ UNCHANGED <<serverVars, canvasVars>>

\* Clear All of the gallery, which shows in generate mode when it has
\* images
ClearImages ==
    /\ currentMode = "generate"
    /\ images # <<>>
    /\ images' = <<>>
    /\ UNCHANGED <<currentMode, isLoading, inflight, serverVars, canvasVars>>

NextPage ==
    \/ SwitchMode
    \/ SubmitGenerate
    \/ SubmitCanvas
    \/ BlobsReady
    \/ BlobMissing
    \/ Answered
    \/ ClearImages

\* the page freshly loaded; the canvases are left as they are
InitPage ==
    /\ PageAtRest
    /\ CanvasAtRest("inpaint")
    /\ server = "next" /\ env = "sk-test" /\ STABILITY_API_KEY = env
    /\ pc = "idle" /\ req = NoRequest /\ outbound = <<>> /\ reply = NoReply
    /\ resp = <<>> /\ debug_mask = NoFile

SpecPage == InitPage /\ [][NextPage]_vars

(***************************************************************************)
(* Properties of the page                                                  *)
(***************************************************************************)
\* C26: the loading flag is shared by the three modes and disables every
\* submit button: at most one submission of the page is under way at any
\* time, whatever the mode shown, and the flag is up while it is
C26_AtMostOneInFlight ==
    /\ Len(inflight) <= 1
    /\ inflight # <<>> => isLoading

\* a request is posted and the user has switched to another mode
C26_Witness ==
    /\ Len(inflight) = 1
    /\ inflight[1].stage = "posted"
    /\ currentMode # inflight[1].endpoint

\* the browser calls the callback of canvas.toBlob, and a posted request
\* ends with an answer or a failure: the handler steps that wait for them
\* are taken
SpecPageFair ==
    /\ SpecPage
    /\ WF_vars(BlobsReady \/ BlobMissing)
    /\ WF_vars(Answered)

\* C27: every submission that raises the loading flag lowers it again, on
\* success, on an error answer, on a network failure and when canvas.toBlob
\* gives no blob: the submit buttons never stay disabled forever
C27_LoadingEnds == isLoading ~> ~isLoading

\* the base64 texts of the images the provider sends in the model
ImageData ==
    { Payloads[k] : k \in 1..Len(Payloads) }
    \cup { Base64(r.bytes) : r \in { x \in FetchReplies : IsOk(x) } }

\* C28: every entry of the gallery has a base64 field that is a data URL,
\* 'data:image/png;base64,' followed by the image data, whichever endpoint
\* (generate, inpaint or erase) produced it
C28_GalleryHoldsDataUrls ==
    \A i \in 1..Len(images) :
        \E b \in ImageData : images[i].base64 = DataUrlPrefix \o b

\* C29: the gallery is the batches received since the last Clear All,
\* newest batch first, each batch in the order the server sent it: every
\* step leaves the list as it is, empties it (Clear All), or puts one
\* batch of an answer in front of it
C29_GalleryNewestFirst ==
    [][ \/ images' = images
        \/ images' = <<>> /\ currentMode = "generate" /\ inflight' = inflight
        \/ \E e \in Modes : \E answer \in ServerAnswers(e) :
             /\ Succeeded(answer)
             /\ images' = Batch(e, answer) \o images ]_vars

\* two batches are in the gallery: a later answer with one image in front
\* of an earlier one with two images, in the order they were sent
C29_Witness ==
    images = ArtifactsToImages(<<Artifact(1)>>)
             \o ArtifactsToImages(<<Artifact(2), Artifact(1)>>)

====
